---------------------------- MODULE Spec2Model ----------------------------
(***************************************************************************)
(* xprompt: a Bash prompt generator (src/src/bin/xprompt.rs).              *)
(*                                                                         *)
(* One behaviour is a shell invoking the program twice in succession      *)
(* with the same command line against an unchanged environment             *)
(* (repository, executable path).  Each invocation runs main(): it         *)
(* dispatches on the sub-command, builds a buffer and prints it.           *)
(*                                                                         *)
(* A buffer is a sequence of string pieces, one piece per format argument  *)
(* or literal of the write!/format! calls, so that the position of each    *)
(* piece in the output stays visible; Concat gives the bytes printed.      *)
(* "ESC" in a piece stands for the byte 0x1B.                              *)
(***************************************************************************)
EXTENDS Naturals, Sequences, FiniteSets, TLC

VARIABLES mode, opts, exe, repo, run, pc, buf, r, git_branch, git_flags,
          stashVisits, stdout

vars == <<mode, opts, exe, repo, run, pc, buf, r, git_branch, git_flags,
          stashVisits, stdout>>

(***************************************************************************)
(* Bounds of the model.                                                    *)
(***************************************************************************)
\* longest list of file-status entries a status query returns
MaxEntries == 2
\* largest number of stash entries in a repository
MaxStash == 2

(***************************************************************************)
(* Option<T>: None is the empty sequence, Some(x) the sequence <<x>>.      *)
(***************************************************************************)
None == <<>>
Some(x) == <<x>>

(***************************************************************************)
(* Strings.                                                                *)
(***************************************************************************)
RECURSIVE Concat(_)
Concat(pieces) ==
    IF pieces = <<>> THEN "" ELSE Head(pieces) \o Concat(Tail(pieces))

TIMESTAMP == "\\D{%H:%M:%S}"
USER == "\\u"
WORKING_DIR == "\\w"
HOST == "\\h"

\* the non-printing markers of a Bash prompt string
Open == "\\["
Close == "\\]"

(***************************************************************************)
(* Styles: Pallet::default() gives bold 256-colour foregrounds.            *)
(***************************************************************************)
Pallet ==
    [ black  |-> [fg |-> 0,   bold |-> TRUE],
      blue   |-> [fg |-> 33,  bold |-> TRUE],
      cyan   |-> [fg |-> 37,  bold |-> TRUE],
      green  |-> [fg |-> 64,  bold |-> TRUE],
      orange |-> [fg |-> 166, bold |-> TRUE],
      purple |-> [fg |-> 125, bold |-> TRUE],
      red    |-> [fg |-> 124, bold |-> TRUE],
      violet |-> [fg |-> 61,  bold |-> TRUE],
      white  |-> [fg |-> 15,  bold |-> TRUE],
      yellow |-> [fg |-> 136, bold |-> TRUE] ]

PalletNames == DOMAIN Pallet

\* Style::prefix(): the control sequence that switches the style on
StylePrefix(style) ==
    "ESC[" \o (IF style.bold THEN "1;" ELSE "") \o "38;5;" \o ToString(style.fg) \o "m"

\* Style::suffix(): the reset sequence
StyleSuffix(style) == "ESC[0m"

\* the control sequence ANSIStrings writes between two adjacent spans:
\* nothing when the styles agree, else the part of the next style that differs
StyleDifference(first, next) ==
    IF first = next THEN ""
    ELSE IF first.bold /\ ~next.bold THEN StyleSuffix(first) \o StylePrefix(next)
    ELSE "ESC[" \o (IF next.bold /\ ~first.bold THEN "1;" ELSE "")
                \o "38;5;" \o ToString(next.fg) \o "m"

\* every styling control sequence the program can emit
ControlCodes ==
    ( {StylePrefix(Pallet[n]) : n \in PalletNames}
        \cup {StyleSuffix(Pallet[n]) : n \in PalletNames}
        \cup {StyleDifference(Pallet[a], Pallet[b]) : a, b \in PalletNames} ) \ {""}

\* a span: a style and the text it paints
Span(style, string) == [style |-> style, string |-> string]

\* a BashString whose reset is written without markers around it
BashStringBareReset(s) ==
    << Open, StylePrefix(s.style), Close, s.string, StyleSuffix(s.style) >>

\* Display for BashString: "\[{prefix}\]{string}\[{suffix}\]"
BashString(s) ==
    << Open, StylePrefix(s.style), Close, s.string,
       Open, StyleSuffix(s.style), Close >>

\* Display for BashStrings: "\[{prefix}\]{string}" per span, one reset at the end
RECURSIVE BashStringsBody(_)
BashStringsBody(strings) ==
    IF strings = <<>> THEN <<>>
    ELSE << Open, StylePrefix(Head(strings).style), Close, Head(strings).string >>
           \o BashStringsBody(Tail(strings))

BashStrings(strings) ==
    BashStringsBody(strings)
      \o (IF strings # <<>>
          THEN << Open, StyleSuffix(strings[Len(strings)].style), Close >>
          ELSE <<>>)

\* Display for ANSIStrings: prefix of the first span, the difference between
\* neighbours, a reset after the last; no prompt markers
RECURSIVE ANSIStringsRest(_, _)
ANSIStringsRest(prev, spans) ==
    IF spans = <<>> THEN << StyleSuffix(prev.style) >>
    ELSE << StyleDifference(prev.style, Head(spans).style), Head(spans).string >>
           \o ANSIStringsRest(Head(spans), Tail(spans))

ANSIStrings(spans) ==
    IF spans = <<>> THEN <<>>
    ELSE << StylePrefix(Head(spans).style), Head(spans).string >>
           \o ANSIStringsRest(Head(spans), Tail(spans))

(***************************************************************************)
(* git2::Status: a bit set, here the set of the names of the bits set.     *)
(* CURRENT is the value with no bit set.                                   *)
(***************************************************************************)
StatusBits ==
    { "INDEX_NEW", "INDEX_MODIFIED", "INDEX_DELETED", "INDEX_RENAMED",
      "INDEX_TYPECHANGE", "WT_NEW", "WT_MODIFIED", "WT_DELETED",
      "WT_TYPECHANGE", "WT_RENAMED", "IGNORED", "CONFLICTED" }

CURRENT == {}

\* the statuses file-status entries are drawn from: each bit alone, and files
\* changed both in the working tree and in the index
StatusPool ==
    { {b} : b \in StatusBits }
      \cup { {"INDEX_MODIFIED", "WT_MODIFIED"}, {"INDEX_NEW", "WT_DELETED"} }

is_unversioned(status) == (status \cap {"WT_NEW"}) # CURRENT

is_working_tree_modified(status) ==
    (status \cap {"WT_DELETED", "WT_MODIFIED", "WT_RENAMED", "WT_TYPECHANGE"}) # CURRENT

is_index_modified(status) ==
    (status \cap {"INDEX_DELETED", "INDEX_MODIFIED", "INDEX_NEW", "INDEX_RENAMED",
                  "INDEX_TYPECHANGE"}) # CURRENT

(***************************************************************************)
(* GitFlags and BTreeSet<GitFlags>.  The set is kept as the strictly       *)
(* increasing sequence of its members, the order being the derived Ord     *)
(* (declaration order); iteration walks that sequence.                     *)
(***************************************************************************)
GitFlags == {"Unversioned", "Modified", "Added", "Stashed"}

GitFlagsOrd(f) ==
    CASE f = "Unversioned" -> 0
      [] f = "Modified" -> 1
      [] f = "Added" -> 2
      [] f = "Stashed" -> 3

GitFlagsVal(f) ==
    CASE f = "Unversioned" -> "?"
      [] f = "Modified" -> "!"
      [] f = "Added" -> "+"
      [] f = "Stashed" -> "$"

BTreeSetNew == <<>>

BTreeSetMembers(set) == {set[i] : i \in DOMAIN set}

\* an insertion that keeps the order of arrival instead of the derived order
BTreeSetInsertUnordered(set, f) ==
    IF f \in BTreeSetMembers(set) THEN set ELSE Append(set, f)

RECURSIVE BTreeSetInsert(_, _)
BTreeSetInsert(set, f) ==
    IF set = <<>> THEN <<f>>
    ELSE IF Head(set) = f THEN set
    ELSE IF GitFlagsOrd(f) < GitFlagsOrd(Head(set)) THEN <<f>> \o set
    ELSE <<Head(set)>> \o BTreeSetInsert(Tail(set), f)

(***************************************************************************)
(* Oid: the raw bytes of an object id; Display writes two lowercase hex    *)
(* digits per byte.                                                        *)
(***************************************************************************)
HexChars ==
    <<"0", "1", "2", "3", "4", "5", "6", "7", "8", "9", "a", "b", "c", "d", "e", "f">>

HexByte(b) == HexChars[(b \div 16) + 1] \o HexChars[(b % 16) + 1]

\* an abbreviated id: the first seven hex digits
OidToStringShort(oid) ==
    IF Len(oid) < 4 THEN ""
    ELSE HexByte(oid[1]) \o HexByte(oid[2]) \o HexByte(oid[3])
           \o HexChars[(oid[4] \div 16) + 1]

RECURSIVE OidToString(_)
OidToString(oid) ==
    IF oid = <<>> THEN "" ELSE HexByte(Head(oid)) \o OidToString(Tail(oid))

(***************************************************************************)
(* The environment of a run.                                               *)
(***************************************************************************)
\* the commit a detached HEAD is at
OidA == <<171, 193, 35, 0, 15, 254, 9, 128>>

\* repo.head(): Err (for instance an unborn branch), or a reference with
\* is_branch(), shorthand() (None when the name is not UTF-8) and
\* peel_to_commit() (None when it fails)
HeadErr == [ok |-> FALSE, is_branch |-> FALSE, shorthand |-> None, commit |-> None]

Heads ==
    { HeadErr,
      [ok |-> TRUE, is_branch |-> TRUE,  shorthand |-> Some("main"), commit |-> Some(OidA)],
      [ok |-> TRUE, is_branch |-> TRUE,  shorthand |-> None,         commit |-> Some(OidA)],
      [ok |-> TRUE, is_branch |-> FALSE, shorthand |-> Some("HEAD"), commit |-> Some(OidA)],
      [ok |-> TRUE, is_branch |-> FALSE, shorthand |-> Some("HEAD"), commit |-> None] }

\* repo.statuses(None): Err (None) or the list of the entries' statuses
StatusLists(n) == UNION { [1..k -> StatusPool] : k \in 0..n }

StatusResults(n) == {None} \cup { Some(l) : l \in StatusLists(n) }

\* the stash: its number of entries, and whether stash_foreach can read it
Stashes == [ok : BOOLEAN, n : 0..MaxStash]

\* Repository::discover("."): no repository, or one with a head, statuses and stash
NoRepo ==
    [found |-> FALSE, head |-> HeadErr, statuses |-> None, stash |-> [ok |-> FALSE, n |-> 0]]

Repos(n) ==
    {NoRepo} \cup [found : {TRUE}, head : Heads, statuses : StatusResults(n), stash : Stashes]

\* env::current_exe(): Err, or a path whose to_str() is None when it is not UTF-8
DefaultExe == [ok |-> TRUE, to_str |-> Some("/usr/local/bin/xprompt")]

ExeResults ==
    { [ok |-> FALSE, to_str |-> None], [ok |-> TRUE, to_str |-> None], DefaultExe }

\* the command line: the sub-command and, for ps1, --path and --input
Modes == {"init", "ps1", "ps2", "vcs"}

Ps1Options == [path : {None, Some("/opt/xprompt/bin/xprompt")}, input : {"$", "#"}]

NoOptions == [path |-> None, input |-> ""]

(***************************************************************************)
(* VcsCommand                                                              *)
(***************************************************************************)
get_git_branch(repository) ==
    IF repository.head.ok
    THEN IF repository.head.is_branch
         THEN repository.head.shorthand
         ELSE IF repository.head.commit = None
              THEN None
              ELSE Some(OidToString(repository.head.commit[1]))
    ELSE None

\* one iteration of the loop over the statuses
ClassifyEntry(flags, status) ==
    LET f1 == IF is_unversioned(status) THEN BTreeSetInsert(flags, "Unversioned") ELSE flags
        f2 == IF is_working_tree_modified(status) THEN BTreeSetInsert(f1, "Modified") ELSE f1
    IN  IF is_index_modified(status) THEN BTreeSetInsert(f2, "Added") ELSE f2

\* a scan that stops at the first entry that yields a flag
RECURSIVE ScanStatusesFirstMatch(_, _)
ScanStatusesFirstMatch(flags, statuses) ==
    IF statuses = <<>> THEN flags
    ELSE IF ClassifyEntry(flags, Head(statuses)) # flags
         THEN ClassifyEntry(flags, Head(statuses))
         ELSE ScanStatusesFirstMatch(flags, Tail(statuses))

RECURSIVE ScanStatuses(_, _)
ScanStatuses(flags, statuses) ==
    IF statuses = <<>> THEN flags
    ELSE ScanStatuses(ClassifyEntry(flags, Head(statuses)), Tail(statuses))

\* a callback that asks for the next entry
StashCallbackContinue == TRUE

\* what the callback given to stash_foreach returns: whether to go on
StashCallback == FALSE

\* the number of stash entries stash_foreach visits, starting at entry i of n
RECURSIVE StashForeachFrom(_, _)
StashForeachFrom(i, n) ==
    IF i >= n THEN 0
    ELSE 1 + (IF StashCallback THEN StashForeachFrom(i + 1, n) ELSE 0)

StashForeach(stash) == IF stash.ok THEN StashForeachFrom(0, stash.n) ELSE 0

\* the Cell is set by the callback, so it is true iff an entry was visited
is_stashed(repository) == StashForeach(repository.stash) > 0

\* a get_git_flags that gives up, stash check included, when the status query fails
get_git_flags_abort(repository) ==
    IF repository.statuses = None THEN BTreeSetNew
    ELSE LET scanned == ScanStatuses(BTreeSetNew, repository.statuses[1])
         IN  IF is_stashed(repository) THEN BTreeSetInsert(scanned, "Stashed") ELSE scanned

get_git_flags(repository) ==
    LET scanned == IF repository.statuses # None
                   THEN ScanStatuses(BTreeSetNew, repository.statuses[1])
                   ELSE BTreeSetNew
    IN  IF is_stashed(repository) THEN BTreeSetInsert(scanned, "Stashed") ELSE scanned

write_git_branch(branch) ==
    ANSIStrings(<< Span(Pallet.white, "on "), Span(Pallet.violet, branch) >>)

FlagStr(flags) == Concat([i \in DOMAIN flags |-> GitFlagsVal(flags[i])])

write_git_status(flags) ==
    ANSIStrings(<< Span(Pallet.blue, " ["), Span(Pallet.blue, FlagStr(flags)),
                   Span(Pallet.blue, "]") >>)

(***************************************************************************)
(* Ps1Command, Ps2Command, InitCommand                                     *)
(***************************************************************************)
write_base_prompt ==
    << "\\n" >> \o
    BashStrings(<< Span(Pallet.cyan, TIMESTAMP),
                   Span(Pallet.white, " as "),
                   Span(Pallet.blue, USER),
                   Span(Pallet.white, " at "),
                   Span(Pallet.orange, HOST),
                   Span(Pallet.white, " in "),
                   Span(Pallet.green, WORKING_DIR) >>)

\* a callback that prefers the detected executable to --path
CallbackExeFirst(options, current_exe) ==
    IF current_exe.ok /\ current_exe.to_str # None THEN current_exe.to_str[1]
    ELSE IF options.path # None THEN options.path[1]
    ELSE "xprompt"

Callback(options, current_exe) ==
    IF options.path # None THEN options.path[1]
    ELSE IF current_exe.ok /\ current_exe.to_str # None THEN current_exe.to_str[1]
    ELSE "xprompt"

write_vcs_callback(options, current_exe) ==
    << " $(", Callback(options, current_exe), " vcs)" >>

write_command_prompt(options) ==
    << "\\n" >> \o BashString(Span(Pallet.white, options.input)) \o << " " >>

\* a continuation prompt that looks for a repository
Ps2PromptInRepo ==
    BashString(Span(Pallet.yellow, IF repo.found THEN "git -> " ELSE "-> "))

Ps2Prompt == BashString(Span(Pallet.yellow, "-> "))

\* the contents of init.bash, included verbatim
InitBash == "<init.bash>"

StringNew == <<>>

(***************************************************************************)
(* The state machine.                                                      *)
(***************************************************************************)
Init ==
    /\ mode \in Modes
    /\ opts \in (IF mode = "ps1" THEN Ps1Options ELSE {NoOptions})
    /\ exe \in (IF mode = "ps1" THEN ExeResults ELSE {DefaultExe})
    /\ repo \in (IF mode = "vcs" THEN Repos(MaxEntries) ELSE Repos(1))
    /\ run = 1
    /\ pc = "main"
    /\ buf = StringNew
    /\ r = FALSE
    /\ git_branch = None
    /\ git_flags = BTreeSetNew
    /\ stashVisits = 0
    /\ stdout = <<>>

Env == <<mode, opts, exe, repo, run>>
Git == <<r, git_branch, git_flags, stashVisits>>

\* main -> InitCommand::run
InitRun ==
    /\ pc = "main" /\ mode = "init"
    /\ buf' = << InitBash >>
    /\ pc' = "print"
    /\ UNCHANGED <<Env, Git, stdout>>

\* main -> Ps1Command::run: the three writes in turn
Ps1WriteBasePrompt ==
    /\ pc = "main" /\ mode = "ps1"
    /\ buf' = StringNew \o write_base_prompt
    /\ pc' = "write_vcs_callback"
    /\ UNCHANGED <<Env, Git, stdout>>

Ps1WriteVcsCallback ==
    /\ pc = "write_vcs_callback"
    /\ buf' = buf \o write_vcs_callback(opts, exe)
    /\ pc' = "write_command_prompt"
    /\ UNCHANGED <<Env, Git, stdout>>

Ps1WriteCommandPrompt ==
    /\ pc = "write_command_prompt"
    /\ buf' = buf \o write_command_prompt(opts)
    /\ pc' = "print"
    /\ UNCHANGED <<Env, Git, stdout>>

\* main -> Ps2Command::run
Ps2Run ==
    /\ pc = "main" /\ mode = "ps2"
    /\ buf' = Ps2Prompt
    /\ pc' = "print"
    /\ UNCHANGED <<Env, Git, stdout>>

\* main -> VcsCommand::run: Repository::discover(".")
VcsDiscover ==
    /\ pc = "main" /\ mode = "vcs"
    /\ buf' = StringNew
    /\ r' = repo.found
    /\ pc' = IF repo.found THEN "get_git_branch" ELSE "print"
    /\ UNCHANGED <<Env, git_branch, git_flags, stashVisits, stdout>>

VcsGetGitBranch ==
    /\ pc = "get_git_branch"
    /\ git_branch' = get_git_branch(repo)
    /\ pc' = "get_git_flags"
    /\ UNCHANGED <<Env, buf, r, git_flags, stashVisits, stdout>>

\* a get_git_flags that drops the stash entry it visits
VcsGetGitFlagsDropsStash ==
    /\ pc = "get_git_flags"
    /\ git_flags' = get_git_flags(repo)
    /\ stashVisits' = StashForeach(repo.stash)
    /\ repo' = [repo EXCEPT !.stash.n = repo.stash.n - StashForeach(repo.stash)]
    /\ pc' = "render"
    /\ UNCHANGED <<mode, opts, exe, run, buf, r, git_branch, stdout>>

VcsGetGitFlags ==
    /\ pc = "get_git_flags"
    /\ git_flags' = get_git_flags(repo)
    /\ stashVisits' = StashForeach(repo.stash)
    /\ pc' = "render"
    /\ UNCHANGED <<Env, buf, r, git_branch, stdout>>

\* if let Some(b) = git_branch: the branch is written
VcsWriteGitBranch ==
    /\ pc = "render" /\ git_branch # None
    /\ buf' = buf \o write_git_branch(git_branch[1])
    /\ pc' = IF git_flags # BTreeSetNew THEN "write_git_status" ELSE "print"
    /\ UNCHANGED <<Env, Git, stdout>>

\* a run that writes the flags although there is no branch
VcsNoBranchWritesStatus ==
    /\ pc = "render" /\ git_branch = None
    /\ buf' = IF git_flags # BTreeSetNew THEN buf \o write_git_status(git_flags) ELSE buf
    /\ pc' = "print"
    /\ UNCHANGED <<Env, Git, stdout>>

\* git_branch is None: nothing is written
VcsNoBranch ==
    /\ pc = "render" /\ git_branch = None
    /\ pc' = "print"
    /\ UNCHANGED <<Env, Git, buf, stdout>>

VcsWriteGitStatus ==
    /\ pc = "write_git_status"
    /\ buf' = buf \o write_git_status(git_flags)
    /\ pc' = "print"
    /\ UNCHANGED <<Env, Git, stdout>>

\* main: print!("{}", buf)
MainPrint ==
    /\ pc = "print"
    /\ stdout' = Append(stdout, Concat(buf))
    /\ pc' = "exit"
    /\ UNCHANGED <<Env, Git, buf>>

\* the shell runs the same command line again, a fresh process
Rerun ==
    /\ pc = "exit" /\ run = 1
    /\ run' = 2
    /\ pc' = "main"
    /\ buf' = StringNew
    /\ r' = FALSE
    /\ git_branch' = None
    /\ git_flags' = BTreeSetNew
    /\ stashVisits' = 0
    /\ UNCHANGED <<mode, opts, exe, repo, stdout>>

Next ==
    \/ InitRun
    \/ Ps1WriteBasePrompt
    \/ Ps1WriteVcsCallback
    \/ Ps1WriteCommandPrompt
    \/ Ps2Run
    \/ VcsDiscover
    \/ VcsGetGitBranch
    \/ VcsGetGitFlags
    \/ VcsWriteGitBranch
    \/ VcsNoBranch
    \/ VcsWriteGitStatus
    \/ MainPrint
    \/ Rerun

Spec == Init /\ [][Next]_vars

(***************************************************************************)
(* Vocabulary of the properties.                                           *)
(***************************************************************************)
\* the run has printed its output: buf is what was printed, stdout[run] its bytes
Exited == pc = "exit"

VcsExited == mode = "vcs" /\ pc = "exit"

\* a repository was discovered and get_git_branch has returned
BranchResolved ==
    mode = "vcs" /\ r /\ pc \in {"get_git_flags", "render", "write_git_status", "print", "exit"}

\* a repository was discovered and get_git_flags has returned
FlagsComputed ==
    mode = "vcs" /\ r /\ pc \in {"render", "write_git_status", "print", "exit"}

IsMarker(piece) == piece \in {Open, Close}

IsControl(piece) == piece \in ControlCodes

IsText(piece) == ~IsMarker(piece) /\ ~IsControl(piece)

\* the pieces of a buffer a terminal shows
Visible(pieces) == SelectSeq(pieces, IsText)

Count(pieces, piece) == Cardinality({i \in DOMAIN pieces : pieces[i] = piece})

\* the statuses of the entries of a successful status query
Entries(repository) ==
    IF repository.statuses = None THEN <<>> ELSE repository.statuses[1]

SomeEntry(repository, bits) ==
    \E i \in DOMAIN Entries(repository) : Entries(repository)[i] \cap bits # {}

\* the flags the repository's state calls for, whatever the order of discovery
FlagsOf(repository) ==
    { f \in GitFlags :
        \/ f = "Unversioned" /\ SomeEntry(repository, {"WT_NEW"})
        \/ f = "Modified" /\ SomeEntry(repository,
              {"WT_DELETED", "WT_MODIFIED", "WT_RENAMED", "WT_TYPECHANGE"})
        \/ f = "Added" /\ SomeEntry(repository,
              {"INDEX_DELETED", "INDEX_MODIFIED", "INDEX_NEW", "INDEX_RENAMED",
               "INDEX_TYPECHANGE"})
        \/ f = "Stashed" /\ repository.stash.ok /\ repository.stash.n >= 1 }

\* the glyphs of a flag set in the order ? ! + $, bracketed; nothing for no flag
FlagPart(S) ==
    IF S = {} THEN ""
    ELSE " [" \o (IF "Unversioned" \in S THEN "?" ELSE "")
              \o (IF "Modified" \in S THEN "!" ELSE "")
              \o (IF "Added" \in S THEN "+" ELSE "")
              \o (IF "Stashed" \in S THEN "$" ELSE "")
              \o "]"

(***************************************************************************)
(* C1: in vcs mode with a branch label, the visible output is "on <branch>" *)
(* followed by a flag part that depends on the flag set alone: nothing for *)
(* the empty set, else " [" + the glyph of each member once, in the order  *)
(* ? ! + $, + "]", whatever the order the flags were found in.             *)
(***************************************************************************)
C1_FlagOrder ==
    (VcsExited /\ git_branch # None) =>
        Concat(Visible(buf)) =
            "on " \o git_branch[1] \o FlagPart(BTreeSetMembers(git_flags))

\* all four flags, found in the order Modified and Added, Unversioned, Stashed
C1_Witness ==
    /\ VcsExited /\ git_branch # None
    /\ repo.statuses = Some(<< {"INDEX_MODIFIED", "WT_MODIFIED"}, {"WT_NEW"} >>)
    /\ BTreeSetMembers(git_flags) = GitFlags
    /\ Concat(Visible(buf)) = "on main [?!+$]"

(***************************************************************************)
(* C2: after a successful status query every entry has been classified:    *)
(* Unversioned iff some entry has WT_NEW, Modified iff some entry has a    *)
(* working-tree deleted/modified/renamed/type-changed bit, Added iff some  *)
(* entry has an index deleted/modified/new/renamed/type-changed bit; an    *)
(* entry changed in both gives both Modified and Added.                    *)
(***************************************************************************)
C2_FlagsClassified ==
    (FlagsComputed /\ repo.statuses # None) =>
        LET flags == BTreeSetMembers(git_flags)
            e == repo.statuses[1]
        IN  /\ "Unversioned" \in flags <=> \E i \in DOMAIN e : "WT_NEW" \in e[i]
            /\ "Modified" \in flags <=>
                 \E i \in DOMAIN e :
                    \/ "WT_DELETED" \in e[i] \/ "WT_MODIFIED" \in e[i]
                    \/ "WT_RENAMED" \in e[i] \/ "WT_TYPECHANGE" \in e[i]
            /\ "Added" \in flags <=>
                 \E i \in DOMAIN e :
                    \/ "INDEX_DELETED" \in e[i] \/ "INDEX_MODIFIED" \in e[i]
                    \/ "INDEX_NEW" \in e[i] \/ "INDEX_RENAMED" \in e[i]
                    \/ "INDEX_TYPECHANGE" \in e[i]
            /\ \A i \in DOMAIN e :
                 ("INDEX_MODIFIED" \in e[i] /\ "WT_MODIFIED" \in e[i])
                    => {"Modified", "Added"} \subseteq flags

\* an untracked file first, then a file changed in both the tree and the index
C2_Witness ==
    /\ FlagsComputed
    /\ repo.statuses = Some(<< {"WT_NEW"}, {"INDEX_MODIFIED", "WT_MODIFIED"} >>)
    /\ git_flags = << "Unversioned", "Modified", "Added" >>

(***************************************************************************)
(* C3 as stated: Stashed is never in the flag set of a repository with no  *)
(* stash entry and always in that of a repository with at least one, and   *)
(* the enumeration visits at most one entry.                               *)
(***************************************************************************)
C3_Original ==
    FlagsComputed =>
        /\ repo.stash.n = 0 => "Stashed" \notin BTreeSetMembers(git_flags)
        /\ repo.stash.n >= 1 => "Stashed" \in BTreeSetMembers(git_flags)
        /\ stashVisits <= 1

(***************************************************************************)
(* C3 amended: Stashed is never in the flag set of a repository with no    *)
(* stash entry; with at least one entry, whatever their number, it is in   *)
(* the set exactly when the stash enumeration succeeds (a failed           *)
(* enumeration visits nothing and adds no flag); the enumeration stops at  *)
(* the first entry visited.                                                *)
(***************************************************************************)
C3_Stashed ==
    FlagsComputed =>
        /\ repo.stash.n = 0 => "Stashed" \notin BTreeSetMembers(git_flags)
        /\ repo.stash.n >= 1 =>
             ("Stashed" \in BTreeSetMembers(git_flags) <=> repo.stash.ok)
        /\ stashVisits <= 1
        /\ stashVisits = 1 <=> (repo.stash.ok /\ repo.stash.n >= 1)

\* several stash entries, one visited, the flag set
C3_Witness ==
    /\ FlagsComputed
    /\ repo.stash.ok /\ repo.stash.n >= 2
    /\ stashVisits = 1
    /\ "Stashed" \in BTreeSetMembers(git_flags)

(***************************************************************************)
(* C4: the vcs output is empty exactly when no repository was discovered   *)
(* or no branch label was resolved; a non-empty output shows "on " and the *)
(* branch first, and no flag bracket is written without a branch label,    *)
(* also when the flag set computed is not empty.                           *)
(***************************************************************************)
C4_BranchOrNothing ==
    VcsExited =>
        /\ stdout[run] = "" <=> (~r \/ git_branch = None)
        /\ stdout[run] # "" =>
             /\ Len(Visible(buf)) >= 2
             /\ Visible(buf)[1] = "on "
             /\ Visible(buf)[2] = git_branch[1]
        /\ git_branch = None => Count(buf, " [") = 0

\* a repository with flags but no resolvable head prints nothing
C4_Witness ==
    /\ VcsExited /\ r
    /\ git_branch = None
    /\ Len(git_flags) >= 2
    /\ stdout[run] = ""

(***************************************************************************)
(* C5 as stated: failures stay within their facet: a failed status or      *)
(* stash query contributes no flags and never keeps a resolved branch      *)
(* label from being printed, and a failed head resolution never keeps the  *)
(* flags found by the status and stash queries from being printed.         *)
(***************************************************************************)
C5_Original ==
    (VcsExited /\ r) =>
        /\ repo.statuses = None => BTreeSetMembers(git_flags) \subseteq {"Stashed"}
        /\ ~repo.stash.ok => "Stashed" \notin BTreeSetMembers(git_flags)
        /\ git_branch # None =>
             (Len(Visible(buf)) >= 2 /\ Visible(buf)[2] = git_branch[1])
        /\ (~repo.head.ok /\ git_flags # BTreeSetNew) =>
             Count(buf, FlagStr(git_flags)) >= 1

(***************************************************************************)
(* C5 amended: failures stay within their facet and no failure leaves the  *)
(* run at a step it cannot go on from (it always goes on to print): a      *)
(* failed status or stash query contributes no flags and never keeps a     *)
(* resolved branch label, or the flags of the query that succeeded, from   *)
(* being printed; a failed head resolution never keeps the status and      *)
(* stash queries from being made and the flag set from being computed, but *)
(* with no branch label the flags are not printed: the output is empty.    *)
(***************************************************************************)
C5_FacetIsolation ==
    /\ (mode = "vcs" /\ pc # "exit") =>
         pc \in {"main", "get_git_branch", "get_git_flags", "render",
                 "write_git_status", "print"}
    /\ FlagsComputed => BTreeSetMembers(git_flags) = FlagsOf(repo)
    /\ (VcsExited /\ r) =>
        /\ repo.statuses = None => BTreeSetMembers(git_flags) \subseteq {"Stashed"}
        /\ ~repo.stash.ok => "Stashed" \notin BTreeSetMembers(git_flags)
        /\ git_branch # None =>
             Concat(Visible(buf)) = "on " \o git_branch[1] \o FlagPart(FlagsOf(repo))
        /\ ~repo.head.ok => (git_branch = None /\ stdout[run] = "")

\* the status query fails, the stash query and the head resolution do not
C5_Witness ==
    /\ VcsExited /\ r
    /\ repo.statuses = None
    /\ repo.stash.ok /\ repo.stash.n >= 1
    /\ stdout[run] # ""
    /\ Concat(Visible(buf)) = "on main [$]"

(***************************************************************************)
(* C6: in the ps1 and ps2 outputs every styling control sequence lies      *)
(* between a "\[" and its "\]", the markers alternate open, close (never   *)
(* nested, none left open) and every text lies outside them; the vcs       *)
(* output holds no marker.                                                 *)
(***************************************************************************)
RECURSIVE WellMarked(_, _)
WellMarked(pieces, inside) ==
    IF pieces = <<>> THEN ~inside
    ELSE LET p == Head(pieces)
         IN  IF p = Open THEN ~inside /\ WellMarked(Tail(pieces), TRUE)
             ELSE IF p = Close THEN inside /\ WellMarked(Tail(pieces), FALSE)
             ELSE IF IsControl(p) THEN inside /\ WellMarked(Tail(pieces), inside)
             ELSE ~inside /\ WellMarked(Tail(pieces), inside)

C6_Markers ==
    Exited =>
        /\ mode \in {"ps1", "ps2"} =>
             /\ WellMarked(buf, FALSE)
             /\ \E i \in DOMAIN buf : IsControl(buf[i])
        /\ mode = "vcs" => \A i \in DOMAIN buf : ~IsMarker(buf[i])

\* a primary prompt with its ten marked control sequences
C6_Witness ==
    /\ Exited /\ mode = "ps1"
    /\ Count(buf, Open) = 10
    /\ Count(buf, Close) = 10
    /\ Len(SelectSeq(buf, IsControl)) = 10

(***************************************************************************)
(* C7 as stated: when HEAD resolves to a branch the label is its short     *)
(* name; when HEAD resolves but is detached the label is the full hex id   *)
(* of the commit; when HEAD does not resolve there is no label.            *)
(***************************************************************************)
C7_Original ==
    BranchResolved =>
        /\ (repo.head.ok /\ repo.head.is_branch) =>
             (git_branch # None /\ git_branch = repo.head.shorthand)
        /\ (repo.head.ok /\ ~repo.head.is_branch) =>
             /\ git_branch # None
             /\ Len(git_branch[1]) = 2 * Len(OidA)
        /\ ~repo.head.ok => git_branch = None

(***************************************************************************)
(* C7 amended: when HEAD resolves to a branch whose short name is valid    *)
(* UTF-8 the label is that short name; when HEAD resolves, is not a branch *)
(* and peels to a commit, the label is the full hex id of that commit (two *)
(* digits per byte), never a shortened form; when HEAD does not resolve,   *)
(* the short name is not valid UTF-8 or the commit cannot be peeled, there *)
(* is no label.                                                            *)
(***************************************************************************)
C7_BranchLabel ==
    BranchResolved =>
        /\ (repo.head.ok /\ repo.head.is_branch /\ repo.head.shorthand # None) =>
             git_branch = Some(repo.head.shorthand[1])
        /\ (repo.head.ok /\ repo.head.is_branch /\ repo.head.shorthand = None) =>
             git_branch = None
        /\ (repo.head.ok /\ ~repo.head.is_branch /\ repo.head.commit # None) =>
             /\ git_branch = Some("abc123000ffe0980")
             /\ Len(git_branch[1]) = 2 * Len(repo.head.commit[1])
        /\ (repo.head.ok /\ ~repo.head.is_branch /\ repo.head.commit = None) =>
             git_branch = None
        /\ ~repo.head.ok => git_branch = None

\* a detached head: the output shows all sixteen digits of the eight bytes
C7_Witness ==
    /\ VcsExited /\ r
    /\ ~repo.head.is_branch /\ repo.head.commit = Some(OidA)
    /\ Len(Visible(buf)) >= 2
    /\ Visible(buf)[2] = "abc123000ffe0980"

Ps1Text(callback, input) ==
    "\\n\\[ESC[1;38;5;37m\\]\\D{%H:%M:%S}\\[ESC[1;38;5;15m\\] as "
      \o "\\[ESC[1;38;5;33m\\]\\u\\[ESC[1;38;5;15m\\] at "
      \o "\\[ESC[1;38;5;166m\\]\\h\\[ESC[1;38;5;15m\\] in "
      \o "\\[ESC[1;38;5;64m\\]\\w\\[ESC[0m\\]"
      \o " $(" \o callback \o " vcs)"
      \o "\\n\\[ESC[1;38;5;15m\\]" \o input \o "\\[ESC[0m\\] "

C9_NoRepositoryInPrompts ==
    /\ mode # "vcs" =>
         (~r /\ git_branch = None /\ git_flags = <<>> /\ stashVisits = 0)
    /\ (Exited /\ mode = "ps2") =>
         stdout[run] = "\\[ESC[1;38;5;136m\\]-> \\[ESC[0m\\]"
    /\ (Exited /\ mode = "ps1") =>
         \E cb \in {"xprompt"} \cup {p[1] : p \in {opts.path, exe.to_str} \ {None}} :
            stdout[run] = Ps1Text(cb, opts.input)

\* a continuation prompt printed inside a repository with changes and a stash
C9_Witness ==
    /\ Exited /\ mode = "ps2"
    /\ repo.found /\ repo.head.ok
    /\ repo.statuses = Some(<< {"WT_MODIFIED"} >>)
    /\ repo.stash.ok /\ repo.stash.n >= 1

(***************************************************************************)
(* C10: the ps1 output is the base prompt, then " $(<callback> vcs)", then *)
(* a literal "\n", the input glyph and a space; <callback> is --path when  *)
(* given, else the executable's path when it is known and valid text, else *)
(* "xprompt"; exactly one callback is embedded.                            *)
(***************************************************************************)
C10_Ps1Layout ==
    (Exited /\ mode = "ps1") =>
        LET cb == CASE opts.path # None -> opts.path[1]
                    [] opts.path = None /\ exe.ok /\ exe.to_str # None -> exe.to_str[1]
                    [] OTHER -> "xprompt"
            n == Len(buf)
        IN  /\ n >= 12
            /\ SubSeq(buf, n - 11, n) =
                 << " $(", cb, " vcs)", "\\n", Open, "ESC[1;38;5;15m", Close,
                    opts.input, Open, "ESC[0m", Close, " " >>
            /\ SubSeq(buf, 1, n - 12) = write_base_prompt
            /\ buf[1] = "\\n"
            /\ Count(buf, " $(") = 1 /\ Count(buf, " vcs)") = 1

\* no --path and an executable path that is not valid text: the bare name
C10_Witness ==
    /\ Exited /\ mode = "ps1"
    /\ opts.path = None /\ exe.ok /\ exe.to_str = None
    /\ Count(buf, "xprompt") = 1
    /\ opts.input = "#"

============================================================================
